---- MODULE Spec2Model ----
(***************************************************************************)
(* State-machine model of notebooks/hdl_dem.ipynb: the DEM-modelling       *)
(* notebook, executed cell by cell in one Jupyter kernel.                  *)
(*                                                                         *)
(* The state is the kernel namespace (one variable per notebook name, and  *)
(* `defined`, the set of names bound in the kernel), the input files, the  *)
(* pickle files on disk, and the position of the run.  One action per code *)
(* cell.  Numbers are exact: a flux value is a natural number or NaN, a    *)
(* mean is kept as numerator/denominator, a quadrature error as            *)
(* sqrt(radicand)/divisor.                                                 *)
(***************************************************************************)
EXTENDS Integers, Sequences, FiniteSets

(***************************************************************************)
(* Bounds of the model.                                                    *)
(***************************************************************************)
MaxSamples == 1   \* time samples per epoch: 1..MaxSamples
MaxBins    == 2   \* wavelength bins per epoch: 1..MaxBins
MaxFlares  == 1   \* rows of flare_mask: 1..MaxFlares
MaxLines   == 1   \* rows of the line table: 1..MaxLines

VARIABLES
  \* ---- files the notebook reads
  csv_file,           \* aumic_linelist.csv: the rows of the line table
  reduced,            \* 30s/reduced : [wavelength, flux, err] of epoch 1
  reduced2,           \* 30s/reduced2: [wavelength, flux, err] of epoch 2
  mask_file,          \* flare_mask2.npy: the flare mask
  \* ---- files the notebook writes
  files,              \* pickle name -> [exists, obj]
  writes,             \* pickle names written by the current run, in order
  \* ---- the run
  pc,                 \* id of the next cell to execute, or "done"
  run,                \* which part of the notebook this session executes
  fault,              \* the exception that stopped the run, or "none"
  defined,            \* names bound in the kernel namespace
  \* ---- the kernel namespace
  line_table,
  w20, f20, e20, w30, f30, e30,
  flare_mask,
  fwc,
  mq, mean_quiescent, mean_quiexcent_err,
  aumic_linelist,
  cs,
  lines, G_T,
  dem

inputs   == <<csv_file, reduced, reduced2, mask_file>>
disk     == <<files, writes>>
control  == <<pc, run, fault, defined>>
loaded   == <<line_table, w20, f20, e20, w30, f30, e30, flare_mask>>
spectrum == <<fwc, mq, mean_quiescent, mean_quiexcent_err>>
chianti  == <<aumic_linelist, cs>>
demstage == <<lines, G_T, dem>>
kernel   == <<loaded, spectrum, chianti, demstage>>
vars     == <<inputs, disk, control, kernel>>

(***************************************************************************)
(* Numbers.                                                                *)
(***************************************************************************)
NaN == [nan |-> TRUE, v |-> 0]
Num(x) == [nan |-> FALSE, v |-> x]
IsNaN(x) == x.nan

\* np.nansum of a 1-D sequence of numbers: NaN counts as zero; the elements
\* are added in index order.
RECURSIVE nansum(_)
nansum(xs) ==
  IF xs = << >> THEN 0
  ELSE (IF IsNaN(Head(xs)) THEN 0 ELSE Head(xs).v) + nansum(Tail(xs))

\* column b of a 2-D array (axis=0 reductions work column by column)
Column(rows, b) == [t \in 1..Len(rows) |-> rows[t][b]]

\* elementwise square, NaN stays NaN
Square(x) == IF IsNaN(x) THEN NaN ELSE Num(x.v * x.v)

NotNaN(xs) == SelectSeq(xs, LAMBDA x : ~IsNaN(x))

(***************************************************************************)
(* The notebook's code cells, top to bottom (ids as in the .ipynb file).   *)
(***************************************************************************)
\* the same cells with the second dump moved up, before the emissivity curves
\* are attached
CellsDumpBeforeEmissivity ==
  << "0369583f", "cc91602f", "ab2ea945", "445cd68c", "f62c6e8c", "8db42093",
     "0b2d4a6c", "3faac63c", "c33a3e45", "de87baca", "98ba8048", "2f00ac9b",
     "cdc4eb23", "710cc62b", "6dacfe06", "47545424", "6c7f5d37" >>

Cells ==
  << "0369583f",   \* imports
     "cc91602f",   \* line_table = Table.read(...)
     "ab2ea945",   \* line_table[:3]
     "445cd68c",   \* load_data, flare_mask
     "f62c6e8c",   \* fwc = FlaresWithCOS(...)
     "8db42093",   \* mq, mean_quiescent, mean_quiexcent_err
     "0b2d4a6c",   \* aumic_linelist = setup_linelist(...)
     "3faac63c",   \* pickle.dump(aumic_linelist)
     "c33a3e45",   \* cs = ChiantiSetup(...)
     "98ba8048",   \* cs.emissivity_functions()
     "2f00ac9b",   \* cs.get_all_ions(top=30)
     "de87baca",   \* pickle.dump(cs.G_T), pickle.dump(cs.linelist)
     "cdc4eb23",   \* lines, G_T = pd.read_pickle(...)
     "710cc62b",   \* dem = DEMModeling(...)
     "6dacfe06",   \* dem.create_DEM(...)
     "47545424",   \* dem.estimate_EUV_from_DEM()
     "6c7f5d37" >> \* pickle.dump(dem.linelist)

CellIndex(c) == CHOOSE i \in 1..Len(Cells) : Cells[i] = c

\* the cell a top-to-bottom run executes after cell c
Following(c) ==
  IF CellIndex(c) = Len(Cells) THEN "done" ELSE Cells[CellIndex(c) + 1]

\* cell c has been executed by the current top-to-bottom run
Executed(c) ==
  \/ pc = "done"
  \/ pc \in {Cells[i] : i \in 1..Len(Cells)} /\ CellIndex(c) < CellIndex(pc)

(***************************************************************************)
(* Quiescent-spectrum extraction (cell 8db42093).                          *)
(***************************************************************************)
\* mq = np.nansum(flare_mask, axis=0) == 0 ; flare_mask is (flares, time)
QuiescentMask(mask) ==
  [t \in 1..Len(mask[1]) |->
     nansum([k \in 1..Len(mask) |-> Num(IF mask[k][t] THEN 1 ELSE 0)]) = 0]

\* a[m] with m taken as integers 0/1 instead of booleans: numpy then picks
\* row 0 or row 1 for each element of m
IntIndex(a, m) == [t \in 1..Len(m) |-> a[IF m[t] THEN 2 ELSE 1]]

\* a[m] for a boolean vector m: the rows of a where m is True, in order
BoolIndex(a, m) ==
  LET idx == SelectSeq([t \in 1..Len(a) |-> t], LAMBDA t : m[t])
  IN  [i \in 1..Len(idx) |-> a[idx[i]]]

\* np.nanmean(rows, axis=0) of an (n, nb) array: per bin, the sum of the
\* non-NaN values over their count; NaN (and a warning) when there is none
nanmean(rows, nb) ==
  [b \in 1..nb |->
     LET col == Column(rows, b)
         cnt == Len(NotNaN(col))
     IN  IF cnt = 0 THEN [nan |-> TRUE, num |-> 0, den |-> 0]
         ELSE [nan |-> FALSE, num |-> nansum(col), den |-> cnt]]

\* the divisor taken over all samples: len(fwc.flux_err)
ErrDivisorUnmasked(rows) == Len(fwc.flux_err)

\* the divisor of the error: len(fwc.flux_err[mq])
ErrDivisor(rows) == Len(rows)

\* np.sqrt(np.nansum(rows**2, axis=0)) / len(rows): per bin
\* sqrt(radicand)/divisor; 0/0 is NaN (a warning, no exception)
QuadratureError(rows, nb) ==
  [b \in 1..nb |->
     LET col == [t \in 1..Len(rows) |-> Square(rows[t][b])]
     IN  IF ErrDivisor(rows) = 0
         THEN [nan |-> TRUE, radicand |-> 0, divisor |-> 0]
         ELSE [nan |-> FALSE, radicand |-> nansum(col),
               divisor |-> ErrDivisor(rows)]]

\* the three assignments of the cell, as a function of its inputs
Quiescent(flux, flux_err, mask) ==
  LET m  == QuiescentMask(mask)
      nb == Len(flux[1])
  IN  [mq |-> m,
       mean_quiescent |-> nanmean(BoolIndex(flux, m), nb),
       mean_quiexcent_err |-> QuadratureError(BoolIndex(flux_err, m), nb)]

(***************************************************************************)
(* Input files.                                                            *)
(***************************************************************************)
P11  == [f |-> Num(1), e |-> Num(1)]
P22  == [f |-> Num(2), e |-> Num(2)]
PNaN == [f |-> NaN, e |-> NaN]
PNaNFlux == [f |-> NaN, e |-> Num(2)]

\* an epoch directory: a wavelength grid g and n samples drawn from `rows`
\* (each row: one (flux, err) pair per bin of g)
EpochFiles(g, rows) ==
  UNION { { [wavelength |-> g,
             flux |-> [t \in 1..n |-> [b \in 1..Len(g) |-> px[t][b].f]],
             err  |-> [t \in 1..n |-> [b \in 1..Len(g) |-> px[t][b].e]]]
            : px \in [1..n -> rows] }
          : n \in 1..MaxSamples }

\* wavelength grids of 1..MaxBins bins
Grids == UNION { [1..n -> {10, 20}] : n \in 1..MaxBins }

\* flare masks of 1..MaxFlares flares over T time samples
Masks(T) == UNION { [1..k -> [1..T -> BOOLEAN]] : k \in 1..MaxFlares }

\* rows of the line table (columns of markdown cell e585677a)
LineRows ==
  { [Ion |-> i, wmin |-> w[1], wave_obs |-> w[2], wmax |-> w[3], quality |-> q]
      : i \in {"NII", "HeII"},
        w \in {<<5, 10, 15>>, <<25, 20, 15>>},
        q \in {0, 1} }

\* line tables: 1..MaxLines rows, one row per ion
LineTables ==
  UNION { { t \in [1..n -> LineRows] :
              \A i, j \in 1..n : i # j => t[i].Ion # t[j].Ion }
          : n \in 1..MaxLines }

\* the value of a name the kernel has not bound
Undefined == "undefined"

(***************************************************************************)
(* Names: what each cell reads from the kernel namespace and what it binds.*)
(***************************************************************************)
Imported ==
  {"os", "np", "pd", "pickle", "Table", "load_binned_data", "FlaresWithCOS",
   "setup_linelist", "ChiantiSetup", "DEMModeling"}

Reads(c) ==
  CASE c = "0369583f" -> {}
    [] c = "cc91602f" -> {"Table"}
    [] c = "ab2ea945" -> {"line_table"}
    [] c = "445cd68c" -> {"os", "np", "load_binned_data"}
    [] c = "f62c6e8c" -> {"FlaresWithCOS", "np", "w20", "w30", "f20", "f30",
                          "e20", "e30"}
    [] c = "8db42093" -> {"np", "flare_mask", "fwc"}
    [] c = "0b2d4a6c" -> {"setup_linelist", "fwc", "mean_quiescent",
                          "mean_quiexcent_err", "line_table"}
    [] c = "3faac63c" -> {"pickle", "aumic_linelist"}
    [] c = "c33a3e45" -> {"ChiantiSetup", "aumic_linelist"}
    [] c = "98ba8048" -> {"cs"}
    [] c = "2f00ac9b" -> {"cs"}
    [] c = "de87baca" -> {"pickle", "cs"}
    [] c = "cdc4eb23" -> {"pd"}
    [] c = "710cc62b" -> {"DEMModeling", "lines", "cs"}
    [] c = "6dacfe06" -> {"dem"}
    [] c = "47545424" -> {"dem"}
    [] c = "6c7f5d37" -> {"pickle", "dem"}

Binds(c) ==
  CASE c = "0369583f" -> Imported
    [] c = "cc91602f" -> {"line_table"}
    [] c = "445cd68c" -> {"w20", "f20", "e20", "w30", "f30", "e30",
                          "flare_mask"}
    [] c = "f62c6e8c" -> {"fwc"}
    [] c = "8db42093" -> {"mq", "mean_quiescent", "mean_quiexcent_err"}
    [] c = "0b2d4a6c" -> {"aumic_linelist"}
    [] c = "c33a3e45" -> {"cs"}
    [] c = "cdc4eb23" -> {"lines", "G_T"}
    [] c = "710cc62b" -> {"dem"}
    [] OTHER -> {}

(***************************************************************************)
(* Running a cell.                                                         *)
(***************************************************************************)
\* the first cell of each part of the notebook a session may execute, after
\* the imports
StageStart(s) ==
  CASE s = "all"     -> Following("0369583f")
    [] s = "chianti" -> "c33a3e45"
    [] s = "dem"     -> "cdc4eb23"

\* cell c is the next to run and no exception has stopped the run
AtCell(c) == pc = c /\ fault = "none"

\* a name the cell reads is unbound: Python raises NameError
Unbound(c) == ~(Reads(c) \subseteq defined)

\* an exception stops the run at the cell; nothing is assigned
Raise(e) ==
  /\ fault' = e
  /\ UNCHANGED <<pc, run, defined, inputs, disk, kernel>>

\* the cell completed: its names are bound, the next cell is up
Completed(c) ==
  /\ pc' = IF c = "0369583f" THEN StageStart(run) ELSE Following(c)
  /\ defined' = defined \cup Binds(c)
  /\ UNCHANGED <<run, fault, inputs>>

\* cell 0369583f: the imports
Imports ==
  /\ AtCell("0369583f")
  /\ Completed("0369583f")
  /\ UNCHANGED <<disk, kernel>>

\* cell cc91602f: line_table = Table.read(csv): every row, as read
TableRead == csv_file

ReadLineTable ==
  /\ AtCell("cc91602f")
  /\ IF Unbound("cc91602f") THEN Raise("NameError")
     ELSE /\ line_table' = TableRead
          /\ Completed("cc91602f")
          /\ UNCHANGED <<w20, f20, e20, w30, f30, e30, flare_mask, spectrum,
                         chianti, demstage, disk>>

\* cell ab2ea945: line_table[:3] is displayed
ShowLineTable ==
  /\ AtCell("ab2ea945")
  /\ IF Unbound("ab2ea945") THEN Raise("NameError")
     ELSE Completed("ab2ea945") /\ UNCHANGED <<kernel, disk>>

\* load_data(path): wavelength = np.full(flux.shape, wavelength)
load_data(dir) ==
  [wavelength |-> [t \in 1..Len(dir.flux) |-> dir.wavelength],
   flux |-> dir.flux,
   err  |-> dir.err]

\* cell 445cd68c
LoadData ==
  /\ AtCell("445cd68c")
  /\ IF Unbound("445cd68c") THEN Raise("NameError")
     ELSE /\ w20' = load_data(reduced).wavelength
          /\ f20' = load_data(reduced).flux
          /\ e20' = load_data(reduced).err
          /\ w30' = load_data(reduced2).wavelength
          /\ f30' = load_data(reduced2).flux
          /\ e30' = load_data(reduced2).err
          /\ flare_mask' = mask_file
          /\ Completed("445cd68c")
          /\ UNCHANGED <<line_table, spectrum, chianti, demstage, disk>>

\* np.append(a, b, axis=0) raises ValueError unless the trailing dimensions
\* of a and b agree (a and b are 2-D with at least one row)
AppendMismatch(a, b) == Len(a[1]) # Len(b[1])

\* np.append(a, b, axis=0): the rows of a, then the rows of b
np_append(a, b) == a \o b

\* cell f62c6e8c: fwc = FlaresWithCOS(wavelength=..., flux=..., flux_err=...)
FlaresWithCOS ==
  /\ AtCell("f62c6e8c")
  /\ IF Unbound("f62c6e8c") THEN Raise("NameError")
     ELSE IF \/ AppendMismatch(w20, w30)
             \/ AppendMismatch(f20, f30)
             \/ AppendMismatch(e20, e30)
     THEN Raise("ValueError")
     ELSE /\ fwc' = [wavelength |-> np_append(w20, w30),
                     flux       |-> np_append(f20, f30),
                     flux_err   |-> np_append(e20, e30)]
          /\ Completed("f62c6e8c")
          /\ UNCHANGED <<loaded, mq, mean_quiescent, mean_quiexcent_err,
                         chianti, demstage, disk>>

\* cell 8db42093: no exception is raised for an empty flare-free subset;
\* numpy only warns ("Mean of empty slice", "invalid value in divide")
QuiescentSpectrum ==
  /\ AtCell("8db42093")
  /\ IF Unbound("8db42093") THEN Raise("NameError")
     ELSE LET q == Quiescent(fwc.flux, fwc.flux_err, flare_mask)
          IN  /\ mq' = q.mq
              /\ mean_quiescent' = q.mean_quiescent
              /\ mean_quiexcent_err' = q.mean_quiexcent_err
              /\ Completed("8db42093")
              /\ UNCHANGED <<loaded, fwc, chianti, demstage, disk>>

(***************************************************************************)
(* Line-list dictionary and the stages that enrich it.  setup_linelist,    *)
(* ChiantiSetup and DEMModeling are imported from dem_modeling (cell      *)
(* 0369583f); their effect on the dictionary follows the data model of     *)
(* the specification: one entry per catalog line, enriched in place.       *)
(***************************************************************************)
\* the arguments of the setup_linelist call
SetupLinelistArgs ==
  [wavelength   |-> fwc.wavelength[1],
   spectrum     |-> mean_quiescent,
   spectrum_err |-> mean_quiexcent_err,
   line_table   |-> line_table]

\* the values of a spectrum in the window [wmin, wmax] of a line
Window(wavelength, spec, row) ==
  LET idx == SelectSeq([b \in 1..Len(wavelength) |-> b],
                       LAMBDA b : row.wmin <= wavelength[b]
                                  /\ wavelength[b] <= row.wmax)
  IN  [i \in 1..Len(idx) |-> spec[idx[i]]]

\* setup_linelist: one entry per row of the table, keyed by the line
setup_linelist(a) ==
  LET t == a.line_table
      RowOf(k) == t[CHOOSE i \in 1..Len(t) : t[i].Ion = k]
  IN  [k \in {t[i].Ion : i \in 1..Len(t)} |->
         [Ion |-> k,
          wmin |-> RowOf(k).wmin,
          wave_obs |-> RowOf(k).wave_obs,
          wmax |-> RowOf(k).wmax,
          quality |-> RowOf(k).quality,
          Fline |-> Window(a.wavelength, a.spectrum, RowOf(k)),
          Fline_err |-> Window(a.wavelength, a.spectrum_err, RowOf(k)),
          G_T |-> "none",
          dem |-> "none",
          euv |-> "none"]]

\* cell 0b2d4a6c
SetupLinelist ==
  /\ AtCell("0b2d4a6c")
  /\ IF Unbound("0b2d4a6c") THEN Raise("NameError")
     ELSE /\ aumic_linelist' = setup_linelist(SetupLinelistArgs)
          /\ Completed("0b2d4a6c")
          /\ UNCHANGED <<loaded, spectrum, cs, demstage, disk>>

\* pickle.dump(obj, open(name, 'wb')): the file holds a snapshot of obj
pickle_dump(fs, name, obj) ==
  [fs EXCEPT ![name] = [exists |-> TRUE, obj |-> obj]]

\* cell 3faac63c
DumpLinelist ==
  /\ AtCell("3faac63c")
  /\ IF Unbound("3faac63c") THEN Raise("NameError")
     ELSE /\ files' = pickle_dump(files, "aumic_linelist.pkl", aumic_linelist)
          /\ writes' = Append(writes, "aumic_linelist.pkl")
          /\ Completed("3faac63c")
          /\ UNCHANGED kernel

\* cell c33a3e45: cs = ChiantiSetup(linelist, logT_range, wave_range)
ChiantiSetup ==
  /\ AtCell("c33a3e45")
  /\ IF Unbound("c33a3e45") THEN Raise("NameError")
     ELSE /\ cs' = [linelist   |-> aumic_linelist,
                    logT_range |-> <<4, 8>>,
                    wave_range |-> <<1, 3200>>,
                    G_T        |-> [ions |-> {}, top |-> 0]]
          /\ Completed("c33a3e45")
          /\ UNCHANGED <<loaded, spectrum, aumic_linelist, demstage, disk>>

\* cs.emissivity_functions(): an emissivity curve per line of the list
emissivity_functions(c) ==
  [c EXCEPT !.linelist = [k \in DOMAIN c.linelist |->
                            [c.linelist[k] EXCEPT !.G_T = "curve"]],
            !.G_T = [c.G_T EXCEPT !.ions = DOMAIN c.linelist]]

\* cell 98ba8048
EmissivityFunctions ==
  /\ AtCell("98ba8048")
  /\ IF Unbound("98ba8048") THEN Raise("NameError")
     ELSE /\ cs' = emissivity_functions(cs)
          /\ Completed("98ba8048")
          /\ UNCHANGED <<loaded, spectrum, aumic_linelist, demstage, disk>>

\* cs.get_all_ions(top=30): the emissivity grid is extended to the top ions
get_all_ions(c, top) == [c EXCEPT !.G_T = [c.G_T EXCEPT !.top = top]]

\* cell 2f00ac9b
GetAllIons ==
  /\ AtCell("2f00ac9b")
  /\ IF Unbound("2f00ac9b") THEN Raise("NameError")
     ELSE /\ cs' = get_all_ions(cs, 30)
          /\ Completed("2f00ac9b")
          /\ UNCHANGED <<loaded, spectrum, aumic_linelist, demstage, disk>>

\* cell de87baca: cs.G_T first, then cs.linelist
DumpChianti ==
  /\ AtCell("de87baca")
  /\ IF Unbound("de87baca") THEN Raise("NameError")
     ELSE /\ files' = pickle_dump(pickle_dump(files, "aumic_G_T.pkl", cs.G_T),
                                  "aumic_linelist_updated.pkl", cs.linelist)
          /\ writes' = writes \o <<"aumic_G_T.pkl",
                                   "aumic_linelist_updated.pkl">>
          /\ Completed("de87baca")
          /\ UNCHANGED kernel

\* the same with a line popped after the read (lines.pop(...) not commented)
ReadPickleLinesPop ==
  LET d == files["aumic_linelist_updated.pkl"].obj
  IN  [k \in DOMAIN d \ {"HeII"} |-> d[k]]

\* lines = pd.read_pickle('aumic_linelist_updated.pkl'); the two lines.pop
\* calls that follow are commented out
ReadPickleLines == files["aumic_linelist_updated.pkl"].obj

\* cell cdc4eb23: pd.read_pickle raises FileNotFoundError for a missing file
ReadPickles ==
  /\ AtCell("cdc4eb23")
  /\ IF Unbound("cdc4eb23") THEN Raise("NameError")
     ELSE IF \/ ~files["aumic_linelist_updated.pkl"].exists
             \/ ~files["aumic_G_T.pkl"].exists
     THEN Raise("FileNotFoundError")
     ELSE /\ lines' = ReadPickleLines
          /\ G_T' = files["aumic_G_T.pkl"].obj
          /\ Completed("cdc4eb23")
          /\ UNCHANGED <<loaded, spectrum, chianti, dem, disk>>

\* cell 710cc62b: dem = DEMModeling(linelist=lines, G_T=cs.G_T,
\*                                 logT_range=cs.logT_range)
\* G_T and logT_range are taken from the kernel object cs, not from the
\* G_T read from aumic_G_T.pkl by the cell before
DEMModeling ==
  /\ AtCell("710cc62b")
  /\ IF Unbound("710cc62b") THEN Raise("NameError")
     ELSE /\ dem' = [linelist   |-> lines,
                     G_T        |-> cs.G_T,
                     logT_range |-> cs.logT_range,
                     specified_lines |-> {},
                     euv |-> "none"]
          /\ Completed("710cc62b")
          /\ UNCHANGED <<loaded, spectrum, chianti, lines, G_T, disk>>

\* specified_lines = list(dem.linelist.keys())
SpecifiedLines(d) == DOMAIN d.linelist

\* dem.create_DEM(specified_lines=...): the fit is attached to the lines
create_DEM(d, specified) ==
  [d EXCEPT !.specified_lines = specified,
            !.linelist = [k \in DOMAIN d.linelist |->
                            [d.linelist[k] EXCEPT !.dem = "model"]]]

\* cell 6dacfe06
CreateDEM ==
  /\ AtCell("6dacfe06")
  /\ IF Unbound("6dacfe06") THEN Raise("NameError")
     ELSE /\ dem' = create_DEM(dem, SpecifiedLines(dem))
          /\ Completed("6dacfe06")
          /\ UNCHANGED <<loaded, spectrum, chianti, lines, G_T, disk>>

\* dem.estimate_EUV_from_DEM()
estimate_EUV_from_DEM(d) ==
  [d EXCEPT !.euv = "estimated",
            !.linelist = [k \in DOMAIN d.linelist |->
                            [d.linelist[k] EXCEPT !.euv = "estimated"]]]

\* cell 47545424
EstimateEUV ==
  /\ AtCell("47545424")
  /\ IF Unbound("47545424") THEN Raise("NameError")
     ELSE /\ dem' = estimate_EUV_from_DEM(dem)
          /\ Completed("47545424")
          /\ UNCHANGED <<loaded, spectrum, chianti, lines, G_T, disk>>

\* cell 6c7f5d37
DumpDEM ==
  /\ AtCell("6c7f5d37")
  /\ IF Unbound("6c7f5d37") THEN Raise("NameError")
     ELSE /\ files' = pickle_dump(files, "aumic_dem_models.pkl", dem.linelist)
          /\ writes' = Append(writes, "aumic_dem_models.pkl")
          /\ Completed("6c7f5d37")
          /\ UNCHANGED kernel

\* The kernel is restarted once a run has ended, and the new session runs
\* the imports and then the whole notebook or one stage of it.  The pickle
\* files stay on disk; every kernel name is gone.
RestartKernel(stage) ==
  /\ pc = "done" \/ fault # "none"
  /\ pc' = Cells[1]
  /\ run' = stage
  /\ fault' = "none"
  /\ defined' = {}
  /\ writes' = << >>
  /\ line_table' = Undefined
  /\ w20' = Undefined /\ f20' = Undefined /\ e20' = Undefined
  /\ w30' = Undefined /\ f30' = Undefined /\ e30' = Undefined
  /\ flare_mask' = Undefined
  /\ fwc' = Undefined
  /\ mq' = Undefined
  /\ mean_quiescent' = Undefined
  /\ mean_quiexcent_err' = Undefined
  /\ aumic_linelist' = Undefined
  /\ cs' = Undefined
  /\ lines' = Undefined
  /\ G_T' = Undefined
  /\ dem' = Undefined
  /\ UNCHANGED <<inputs, files>>

(***************************************************************************)
(* Initial states: a fresh kernel, no pickle on disk, the input files.     *)
(***************************************************************************)
PickleNames ==
  {"aumic_linelist.pkl", "aumic_G_T.pkl", "aumic_linelist_updated.pkl",
   "aumic_dem_models.pkl"}

\* the mask has one column per time sample of the two epochs together
InitWith(tables, dirs1, dirs2, flagged) ==
  /\ csv_file \in tables
  /\ reduced \in dirs1
  /\ reduced2 \in dirs2
  /\ mask_file \in { m \in Masks(Len(reduced.flux) + Len(reduced2.flux)) :
                        \A k \in DOMAIN m : \A t \in DOMAIN m[k] :
                           m[k][t] => flagged }
  /\ files = [n \in PickleNames |-> [exists |-> FALSE, obj |-> Undefined]]
  /\ writes = << >>
  /\ pc = Cells[1]
  /\ run = "all"
  /\ fault = "none"
  /\ defined = {}
  /\ line_table = Undefined
  /\ w20 = Undefined /\ f20 = Undefined /\ e20 = Undefined
  /\ w30 = Undefined /\ f30 = Undefined /\ e30 = Undefined
  /\ flare_mask = Undefined
  /\ fwc = Undefined
  /\ mq = Undefined
  /\ mean_quiescent = Undefined
  /\ mean_quiexcent_err = Undefined
  /\ aumic_linelist = Undefined
  /\ cs = Undefined
  /\ lines = Undefined
  /\ G_T = Undefined
  /\ dem = Undefined

\* sample rows over the grid <<10, 20>>: values and NaNs differ per bin
VariedRows ==
  { <<P11, P22>>, <<P22, PNaN>>, <<PNaN, P11>>, <<PNaNFlux, P11>> }

\* sample rows of constant flux over a grid g
FlatRows(g) == { [b \in 1..Len(g) |-> P11] }

OneLine ==
  { <<[Ion |-> "NII", wmin |-> 5, wave_obs |-> 10, wmax |-> 15,
       quality |-> 1]>> }

\* quiescent extraction: the flux values and the flare mask vary
InitQuiescent ==
  InitWith(OneLine, EpochFiles(<<10, 20>>, VariedRows),
           EpochFiles(<<10, 20>>, VariedRows), TRUE)

NextQuiescent ==
  \/ Imports
  \/ ReadLineTable
  \/ ShowLineTable
  \/ LoadData
  \/ FlaresWithCOS
  \/ QuiescentSpectrum

SpecQuiescent == InitQuiescent /\ [][NextQuiescent]_vars

\* epoch concatenation: the wavelength grids and sample counts vary
InitEpochs ==
  InitWith(OneLine,
           UNION { EpochFiles(g, FlatRows(g)) : g \in Grids },
           UNION { EpochFiles(g, FlatRows(g)) : g \in Grids }, FALSE)

NextEpochs ==
  \/ Imports
  \/ ReadLineTable
  \/ ShowLineTable
  \/ LoadData
  \/ FlaresWithCOS

SpecEpochs == InitEpochs /\ [][NextEpochs]_vars

\* the whole notebook: the line table and the sample counts vary
Init ==
  InitWith(LineTables, EpochFiles(<<10, 20>>, FlatRows(<<10, 20>>)),
           EpochFiles(<<10, 20>>, FlatRows(<<10, 20>>)), FALSE)

Next ==
  \/ Imports
  \/ ReadLineTable
  \/ ShowLineTable
  \/ LoadData
  \/ FlaresWithCOS
  \/ QuiescentSpectrum
  \/ SetupLinelist
  \/ DumpLinelist
  \/ ChiantiSetup
  \/ EmissivityFunctions
  \/ GetAllIons
  \/ DumpChianti
  \/ ReadPickles
  \/ DEMModeling
  \/ CreateDEM
  \/ EstimateEUV
  \/ DumpDEM
  \/ \E stage \in {"all", "chianti", "dem"} : RestartKernel(stage)

Spec == Init /\ [][Next]_vars

(***************************************************************************)
(* Properties.                                                             *)
(***************************************************************************)
Range(f) == {f[x] : x \in DOMAIN f}

\* the time samples that no row of the flare mask flags
FlareFree ==
  {t \in 1..Len(flare_mask[1]) : \A k \in 1..Len(flare_mask) : ~flare_mask[k][t]}

\* the quiescent cell has run in this session
QuiescentDone == {"mq", "mean_quiescent", "mean_quiexcent_err"} \subseteq defined

NBins == Len(fwc.flux[1])

\* C1: with an empty flare-free subset (every time sample flagged by some
\* flare) the quiescent step reports an error: it never binds a mean or an
\* error vector (which would be all NaN) for the later cells to consume.
C1_EmptySubsetIsReported ==
  ({"flare_mask", "fwc"} \subseteq defined /\ FlareFree = {})
    => /\ "mean_quiescent" \notin defined
       /\ "mean_quiexcent_err" \notin defined

Ordered(r) == r.wmin < r.wave_obs /\ r.wave_obs < r.wmax

\* C2: every row of the line table that setup_linelist has measured
\* satisfies wmin < wave_obs < wmax, and no entry of the dictionary is built
\* from a row that violates it.
C2_MeasuredRowsAreOrdered ==
  "aumic_linelist" \in defined
    => /\ \A i \in DOMAIN SetupLinelistArgs.line_table :
            Ordered(SetupLinelistArgs.line_table[i])
       /\ \A k \in DOMAIN aumic_linelist : Ordered(aumic_linelist[k])

Shape(a) == <<Len(a), Len(a[1])>>

\* C3: the concatenated wavelength, flux and flux_err arrays have the same
\* shape, their leading dimension is the sum of the two epochs' sample
\* counts, and every row of the wavelength array equals row 0.
C3_ConcatenationPreservesGrid ==
  "fwc" \in defined
    => /\ Shape(fwc.wavelength) = Shape(fwc.flux)
       /\ Shape(fwc.flux) = Shape(fwc.flux_err)
       /\ Len(fwc.flux) = Len(f20) + Len(f30)
       /\ \A t \in 1..Len(fwc.wavelength) :
            fwc.wavelength[t] = fwc.wavelength[1]

\* C4: a fresh session that has only the pickle files and runs the DEM
\* stage alone finds every input of DEMModeling among the artifacts it
\* read: no name it needs is unbound.
C4_DemStageRunsFromPickles ==
  (run = "dem" /\ \A n \in PickleNames : files[n].exists)
    => fault # "NameError"

Checkpoints ==
  <<"aumic_linelist.pkl", "aumic_G_T.pkl", "aumic_linelist_updated.pkl",
    "aumic_dem_models.pkl">>

IsPrefix(s, t) == Len(s) <= Len(t) /\ s = SubSeq(t, 1, Len(s))

Written(n) == n \in Range(writes)

\* C5: in a top-to-bottom run the pickles are written in the order
\* aumic_linelist.pkl, (aumic_G_T.pkl,) aumic_linelist_updated.pkl,
\* aumic_dem_models.pkl, each once, each only after the cells of the stage
\* it records have run, and a completed run has written all of them.
C5_CheckpointsInStageOrder ==
  run = "all"
    => /\ IsPrefix(writes, Checkpoints)
       /\ pc = "done" => writes = Checkpoints
       /\ Written("aumic_linelist.pkl") => Executed("0b2d4a6c")
       /\ Written("aumic_linelist_updated.pkl")
            => /\ Executed("98ba8048") /\ Executed("2f00ac9b")
               /\ Written("aumic_G_T.pkl")
       /\ Written("aumic_dem_models.pkl")
            => Executed("6dacfe06") /\ Executed("47545424")

C5_Witness ==
  /\ run = "all" /\ pc = "done" /\ writes = Checkpoints
  /\ \A n \in PickleNames : files[n].exists

\* checkpoint b keeps every key of checkpoint a with its flux and flux error
Keeps(a, b) ==
  (files[a].exists /\ files[b].exists)
    => /\ DOMAIN files[a].obj \subseteq DOMAIN files[b].obj
       /\ \A k \in DOMAIN files[a].obj :
            /\ files[b].obj[k].Fline = files[a].obj[k].Fline
            /\ files[b].obj[k].Fline_err = files[a].obj[k].Fline_err

C7_LowQualityExcludedFromFit ==
  ("dem" \in defined /\ Executed("6dacfe06"))
    => /\ \A k \in dem.specified_lines : dem.linelist[k].quality # 0
       /\ \A i \in DOMAIN csv_file :
            csv_file[i].quality = 0 => csv_file[i].Ion \in DOMAIN dem.linelist

SamplePermutations(n) ==
  {p \in [1..n -> 1..n] : \A i, j \in 1..n : i # j => p[i] # p[j]}

Permuted(a, p) == [t \in 1..Len(a) |-> a[p[t]]]

RECURSIVE SumSquares(_, _)
SumSquares(S, b) ==
  IF S = {} THEN 0
  ELSE LET t == CHOOSE x \in S : TRUE
           e == fwc.flux_err[t][b]
       IN  (IF e.nan THEN 0 ELSE e.v * e.v) + SumSquares(S \ {t}, b)

\* C9: at every bin mean_quiexcent_err = sqrt(sum of flux_err^2 over the
\* flare-free samples) / N, N the number of flare-free samples.
C9_QuadratureOverCount ==
  (QuiescentDone /\ FlareFree # {})
    => \A b \in 1..NBins :
         /\ ~mean_quiexcent_err[b].nan
         /\ mean_quiexcent_err[b].divisor = Cardinality(FlareFree)
         /\ mean_quiexcent_err[b].radicand = SumSquares(FlareFree, b)

C9_Witness ==
  /\ QuiescentDone
  /\ Cardinality(FlareFree) >= 2
  /\ \E b \in 1..NBins : mean_quiexcent_err[b].radicand > 1

\* C10: at every bin the count dividing the flux sum in mean_quiescent
\* equals the count dividing the quadrature sum in mean_quiexcent_err.
C10_SameDivisor ==
  (QuiescentDone /\ FlareFree # {})
    => \A b \in 1..NBins :
         mean_quiescent[b].den = mean_quiexcent_err[b].divisor
====
